---- MODULE Spec2Model ----
(***************************************************************************)
(* A model of unf_events_to_ics.py: the pagination walker crawl_location,  *)
(* the concurrent orchestration and page cache of run_once, the record     *)
(* extraction of one listing row, and the calendar encoder rows_to_ics     *)
(* with fold_ical_line.                                                    *)
(*                                                                         *)
(* URLs are positive numbers (None is 0); the start URL of location l is   *)
(* l.  The site is static: a URL serves one page, a record batch and a     *)
(* next link; the model learns the page of a URL when the first network    *)
(* request for it succeeds.                                                *)
(***************************************************************************)
EXTENDS Integers, Sequences, FiniteSets, TLC

VARIABLES
    site,        \* URL -> the page it serves, NoPage while no request has shown it
    max_pages,   \* run_once / crawl_location argument
    workers,     \* run_once argument after the clamp
    cache_ttl,   \* run_once argument
    pc,          \* per location: "queued", "loop", "net", "done"
    url,         \* per location: crawl_location's url
    seen,        \* per location: crawl_location's seen
    rows,        \* per location: crawl_location's rows
    now,         \* per location: fetch's now = time.time() at the start of the call, while a request is out
    fetched,     \* per location: the URLs passed to fetch, in order (history)
    failed,      \* per location: a fetch of this walk returned None (history)
    missStored,  \* per location, while a request is out: when the entry seen at the miss was stored, -1 if none (history)
    page_cache,  \* URL -> [t, text] or NoEntry
    storedAt,    \* URL -> the clock value when its entry was stored, -1 if none (history)
    clock,       \* time.time()
    results,     \* run_once's results dict, in insertion order: <<slug index, rows>>
    ics_files,   \* the files written so far: [slug, rows]
    mainpc,      \* run_once's main thread: "pool", "write", "finished", "idle"
    calname,     \* rows_to_ics argument
    navn,        \* the Navn of the record rows_to_ics encodes
    folded,      \* fold_ical_line's result for the SUMMARY line
    content,     \* the text rows_to_ics writes
    fpc,         \* encoder position: "start", "folded", "written", "idle"
    layout,      \* the listing row's layout: "table" or "pipe"
    timeCell,    \* the row's time cell text
    dateOk,      \* whether the date cell parses to a day
    classTokens, \* the row's class tokens (tr plus name cell)
    rec,         \* the extracted record, NoRec before extraction
    evt,         \* the encoded event, NoEvt before encoding
    epc          \* extraction/encoding position: "row", "record", "encoded", "idle"

crawlVars == <<site, max_pages, workers, cache_ttl, pc, url, seen, rows, now,
               fetched, failed, missStored, page_cache, storedAt, clock,
               results, ics_files, mainpc>>
foldVars == <<calname, navn, folded, content, fpc>>
encVars == <<layout, timeCell, dateOk, classTokens, rec, evt, epc>>
vars == <<crawlVars, foldVars, encVars>>

(***************************************************************************)
(* Bounds of the model.                                                    *)
(***************************************************************************)
ExtraUrls == 0      \* URLs of the site besides the start URLs
MaxPagesWalk == 3   \* max_pages of a walk on its own ranges over 0..MaxPagesWalk
MaxPagesRun == 2    \* max_pages of run_once ranges over 0..MaxPagesRun
MaxTime == 2        \* the clock runs from 0 to MaxTime
MaxTtl == 1         \* cache_ttl ranges over 0..MaxTtl

LOCATIONS == <<"kbh", "lyngby", "aarhus", "odense", "aalborg", "danmark">>
\* the run of the model crawls the first two locations
slugs == <<LOCATIONS[1], LOCATIONS[2]>>
NumLocs == Len(slugs)
Locs == 1..NumLocs
None == 0
URLs == 1..(NumLocs + ExtraUrls)
StartUrl(l) == l

NoPage == [rows |-> <<>>, next |-> -1]
NoEntry == [t |-> -1, text |-> NoPage]

(***************************************************************************)
(* Records carry the two fields of the deduplication key.  Lower is        *)
(* str.lower on the titles of the model.                                   *)
(***************************************************************************)
Lower(s) == IF s = "A" THEN "a" ELSE IF s = "B" THEN "b" ELSE s
Key(it) == <<it.URL, Lower(it.Navn)>>

RECURSIVE AppendNew(_, _, _)
AppendNew(rws, batch, existing) ==
    IF batch = <<>> THEN rws
    ELSE AppendNew(IF Key(Head(batch)) \in existing THEN rws ELSE Append(rws, Head(batch)),
                   Tail(batch), existing)

\* crawl_location lines 243-247: existing is computed once, before the batch loop
Merge(rws, batch) == AppendNew(rws, batch, {Key(rws[i]) : i \in 1..Len(rws)})

\* the while condition of crawl_location
LoopCondNoPageBound(u, sn, mp) == u # None /\ u \notin sn
LoopCond(u, sn, mp) == u # None /\ u \notin sn /\ Cardinality(sn) < mp

(***************************************************************************)
(* The pages the site can serve.  OrchPages: one record per page, named    *)
(* after the page, and any next link.  WalkPages: batches over records     *)
(* whose keys collide, and any next link.                                  *)
(***************************************************************************)
PageRec(u) == [URL |-> u, Navn |-> "A"]
OrchPages(u) == {[rows |-> <<PageRec(u)>>, next |-> n] : n \in URLs \cup {None}}

rA == [URL |-> 1, Navn |-> "A"]
ra == [URL |-> 1, Navn |-> "a"]
rB == [URL |-> 0, Navn |-> "B"]
WalkBatches == {<<>>, <<rA>>, <<ra>>, <<rB>>, <<rA, ra>>, <<rA, rB>>, <<rB, rB>>}
WalkPages(u) == {[rows |-> b, next |-> n] : b \in WalkBatches, n \in URLs \cup {None}}

\* what a successful request for u returns: the page of u, the same every time
Served(u, pages) == IF site[u] = NoPage THEN pages ELSE {site[u]}

(***************************************************************************)
(* crawl_location, one loop iteration from the page on: parse, merge,      *)
(* find_next_page.                                                         *)
(***************************************************************************)
ProcessPage(l, page) ==
    /\ rows' = [rows EXCEPT ![l] = Merge(@, page.rows)]
    /\ url' = [url EXCEPT ![l] = page.next]

\* fetch lines 381-382: an entry exists and (now - hit[0]) <= cache_ttl
CacheFresh(u, t) == page_cache[u] # NoEntry /\ (t - page_cache[u].t) <= cache_ttl

\* fetch's locals end with the call
FetchReturns(l) ==
    /\ now' = [now EXCEPT ![l] = 0]
    /\ missStored' = [missStored EXCEPT ![l] = -1]

EnterLoop(l) ==
    /\ pc[l] = "loop"
    /\ LoopCond(url[l], seen[l], max_pages)
    /\ seen' = [seen EXCEPT ![l] = @ \cup {url[l]}]
    /\ fetched' = [fetched EXCEPT ![l] = Append(@, url[l])]

\* a loop iteration whose fetch is answered from the cache (lines 378-383)
FetchHit(l) ==
    /\ EnterLoop(l)
    /\ cache_ttl > 0
    /\ CacheFresh(url[l], clock)
    /\ ProcessPage(l, page_cache[url[l]].text)
    /\ UNCHANGED <<site, max_pages, workers, cache_ttl, pc, now, failed, missStored,
                   page_cache, storedAt, clock, results, ics_files, mainpc>>
    /\ UNCHANGED <<foldVars, encVars>>

\* a loop iteration whose fetch misses the cache and issues session.get (line 385)
FetchMiss(l) ==
    /\ EnterLoop(l)
    /\ ~(cache_ttl > 0 /\ CacheFresh(url[l], clock))
    /\ pc' = [pc EXCEPT ![l] = "net"]
    /\ now' = [now EXCEPT ![l] = clock]
    /\ missStored' = [missStored EXCEPT ![l] = storedAt[url[l]]]
    /\ UNCHANGED <<site, max_pages, workers, cache_ttl, url, rows, failed,
                   page_cache, storedAt, clock, results, ics_files, mainpc>>
    /\ UNCHANGED <<foldVars, encVars>>

\* the request returns 200: store under the lock (lines 392-396), then the
\* rest of the loop iteration
NetOk(l, pages) ==
    /\ pc[l] = "net"
    /\ \E page \in Served(url[l], pages) :
        /\ site' = [site EXCEPT ![url[l]] = page]
        /\ IF cache_ttl > 0
           THEN /\ page_cache' = [page_cache EXCEPT ![url[l]] = [t |-> now[l], text |-> page]]
                /\ storedAt' = [storedAt EXCEPT ![url[l]] = clock]
           ELSE UNCHANGED <<page_cache, storedAt>>
        /\ ProcessPage(l, page)
    /\ pc' = [pc EXCEPT ![l] = "loop"]
    /\ FetchReturns(l)
    /\ UNCHANGED <<max_pages, workers, cache_ttl, seen, fetched, failed,
                   clock, results, ics_files, mainpc>>
    /\ UNCHANGED <<foldVars, encVars>>

NetFailDropsRows(l) ==
    /\ pc[l] = "net"
    /\ pc' = [pc EXCEPT ![l] = "done"]
    /\ failed' = [failed EXCEPT ![l] = TRUE]
    /\ rows' = [rows EXCEPT ![l] = <<>>]
    /\ FetchReturns(l)
    /\ UNCHANGED <<site, max_pages, workers, cache_ttl, url, seen, fetched,
                   page_cache, storedAt, clock, results, ics_files, mainpc>>
    /\ UNCHANGED <<foldVars, encVars>>

\* the request raises or returns non-200: fetch returns None, the loop breaks,
\* crawl_location returns rows (lines 386-391, 231-232, 251)
NetFail(l) ==
    /\ pc[l] = "net"
    /\ pc' = [pc EXCEPT ![l] = "done"]
    /\ failed' = [failed EXCEPT ![l] = TRUE]
    /\ FetchReturns(l)
    /\ UNCHANGED <<site, max_pages, workers, cache_ttl, url, seen, rows, fetched,
                   page_cache, storedAt, clock, results, ics_files, mainpc>>
    /\ UNCHANGED <<foldVars, encVars>>

\* the while condition is false: crawl_location returns rows
CrawlExit(l) ==
    /\ pc[l] = "loop"
    /\ ~LoopCond(url[l], seen[l], max_pages)
    /\ pc' = [pc EXCEPT ![l] = "done"]
    /\ UNCHANGED <<site, max_pages, workers, cache_ttl, url, seen, rows, now, fetched,
                   failed, missStored, page_cache, storedAt, clock, results, ics_files,
                   mainpc>>
    /\ UNCHANGED <<foldVars, encVars>>

\* time passes; the clock is read by no step once every walk has returned
Tick ==
    /\ clock < MaxTime
    /\ \E l \in Locs : pc[l] \in {"queued", "loop", "net"}
    /\ clock' = clock + 1
    /\ UNCHANGED <<site, max_pages, workers, cache_ttl, pc, url, seen, rows, now, fetched,
                   failed, missStored, page_cache, storedAt, results, ics_files, mainpc>>
    /\ UNCHANGED <<foldVars, encVars>>

(***************************************************************************)
(* run_once: the pool, the collection of results, the files.               *)
(***************************************************************************)
Running == {l \in Locs : pc[l] \in {"loop", "net"}}

\* ThreadPoolExecutor: a queued task starts, in submission order, when fewer
\* than max_workers tasks run
Start(l) ==
    /\ mainpc = "pool"
    /\ pc[l] = "queued"
    /\ \A k \in Locs : k < l => pc[k] # "queued"
    /\ Cardinality(Running) < workers
    /\ pc' = [pc EXCEPT ![l] = "loop"]
    /\ UNCHANGED <<site, max_pages, workers, cache_ttl, url, seen, rows, now, fetched,
                   failed, missStored, page_cache, storedAt, clock, results, ics_files,
                   mainpc>>
    /\ UNCHANGED <<foldVars, encVars>>

Collected == {results[i][1] : i \in 1..Len(results)}

\* as_completed yields a finished future: results[slug] = rows (lines 414-422)
Collect(l) ==
    /\ mainpc = "pool"
    /\ pc[l] = "done"
    /\ l \notin Collected
    /\ results' = Append(results, <<l, rows[l]>>)
    /\ UNCHANGED <<site, max_pages, workers, cache_ttl, pc, url, seen, rows, now, fetched,
                   failed, missStored, page_cache, storedAt, clock, ics_files, mainpc>>
    /\ UNCHANGED <<foldVars, encVars>>

\* the with block ends once as_completed is exhausted
ExitPool ==
    /\ mainpc = "pool"
    /\ Collected = Locs
    /\ mainpc' = "write"
    /\ UNCHANGED <<site, max_pages, workers, cache_ttl, pc, url, seen, rows, now, fetched,
                   failed, missStored, page_cache, storedAt, clock, results, ics_files>>
    /\ UNCHANGED <<foldVars, encVars>>

\* results.get(slug, [])
ResultsGet(l) ==
    IF l \in Collected
    THEN (CHOOSE p \in {results[i] : i \in 1..Len(results)} : p[1] = l)[2]
    ELSE <<>>

WriteIcsInCompletionOrder ==
    /\ mainpc = "write"
    /\ Len(ics_files) < NumLocs
    /\ LET p == results[Len(ics_files) + 1]
       IN  ics_files' = Append(ics_files, [slug |-> slugs[p[1]], rows |-> p[2]])
    /\ UNCHANGED <<site, max_pages, workers, cache_ttl, pc, url, seen, rows, now, fetched,
                   failed, missStored, page_cache, storedAt, clock, results, mainpc>>
    /\ UNCHANGED <<foldVars, encVars>>

\* one iteration of "for slug in slugs" (lines 426-432)
WriteIcs ==
    /\ mainpc = "write"
    /\ Len(ics_files) < NumLocs
    /\ LET l == Len(ics_files) + 1
       IN  ics_files' = Append(ics_files, [slug |-> slugs[l], rows |-> ResultsGet(l)])
    /\ UNCHANGED <<site, max_pages, workers, cache_ttl, pc, url, seen, rows, now, fetched,
                   failed, missStored, page_cache, storedAt, clock, results, mainpc>>
    /\ UNCHANGED <<foldVars, encVars>>

\* the loop over slugs is over: print ICS_FILES
Finish ==
    /\ mainpc = "write"
    /\ Len(ics_files) = NumLocs
    /\ mainpc' = "finished"
    /\ UNCHANGED <<site, max_pages, workers, cache_ttl, pc, url, seen, rows, now, fetched,
                   failed, missStored, page_cache, storedAt, clock, results, ics_files>>
    /\ UNCHANGED <<foldVars, encVars>>

\* workers <= 0 -> 1; min(max(1, workers), len(slugs)) (lines 402-404)
ClampWorkers(w) ==
    LET w1 == IF w <= 0 THEN 1 ELSE w
        w2 == IF w1 < 1 THEN 1 ELSE w1
    IN  IF w2 < NumLocs THEN w2 ELSE NumLocs

FoldIdle ==
    /\ calname = <<>> /\ navn = <<>> /\ folded = <<>> /\ content = <<>> /\ fpc = "idle"

NoRec == [Navn |-> "", Dato |-> "", Klokkeslaet |-> <<>>, URL |-> 0]
NoEvt == [start |-> <<-1, -1>>, end |-> <<-1, -1, -1>>, status |-> ""]

EncIdle ==
    /\ layout = "table" /\ timeCell = <<>> /\ dateOk = FALSE /\ classTokens = {}
    /\ rec = NoRec /\ evt = NoEvt /\ epc = "idle"

CrawlStart(startUrls) ==
    /\ site = [u \in URLs |-> NoPage]
    /\ url = [l \in Locs |-> startUrls[l]]
    /\ seen = [l \in Locs |-> {}]
    /\ rows = [l \in Locs |-> <<>>]
    /\ now = [l \in Locs |-> 0]
    /\ fetched = [l \in Locs |-> <<>>]
    /\ failed = [l \in Locs |-> FALSE]
    /\ missStored = [l \in Locs |-> -1]
    /\ page_cache = [u \in URLs |-> NoEntry]
    /\ storedAt = [u \in URLs |-> -1]
    /\ clock = 0
    /\ results = <<>>
    /\ ics_files = <<>>

\* run_once after login and the submit loop
Init ==
    /\ CrawlStart([l \in Locs |-> StartUrl(l)])
    /\ max_pages \in 0..MaxPagesRun
    /\ \E w \in -1..(NumLocs + 1) : workers = ClampWorkers(w)
    /\ cache_ttl \in 0..MaxTtl
    /\ pc = [l \in Locs |-> "queued"]
    /\ mainpc = "pool"
    /\ FoldIdle
    /\ EncIdle

Next ==
    \/ \E l \in Locs : Start(l)
    \/ \E l \in Locs : FetchHit(l)
    \/ \E l \in Locs : FetchMiss(l)
    \/ \E l \in Locs : NetOk(l, OrchPages(url[l]))
    \/ \E l \in Locs : NetFail(l)
    \/ \E l \in Locs : CrawlExit(l)
    \/ \E l \in Locs : Collect(l)
    \/ Tick
    \/ ExitPool
    \/ WriteIcs
    \/ Finish

Spec == Init /\ [][Next]_vars

(***************************************************************************)
(* One call of crawl_location on its own: any start URL, any max_pages, no *)
(* cache, the pages drawn from WalkPages.  The walker is location 1.       *)
(***************************************************************************)
InitWalk ==
    /\ \E u \in URLs : CrawlStart([l \in Locs |-> u])
    /\ max_pages \in 0..MaxPagesWalk
    /\ workers = 1
    /\ cache_ttl = 0
    /\ pc = [l \in Locs |-> IF l = 1 THEN "loop" ELSE "done"]
    /\ mainpc = "idle"
    /\ FoldIdle
    /\ EncIdle

NextWalk ==
    \/ FetchMiss(1)
    \/ NetOk(1, WalkPages(url[1]))
    \/ NetFail(1)
    \/ CrawlExit(1)

\* every request ends (timeout=20) and the thread keeps running
SpecWalk == InitWalk /\ [][NextWalk]_vars /\ WF_vars(NextWalk)

NoRepeat(s) == \A i, j \in 1..Len(s) : i # j => s[i] # s[j]

WalkBounded ==
    \A l \in Locs : Len(fetched[l]) <= max_pages /\ NoRepeat(fetched[l])

\* C1: a walk makes at most max_pages fetches, never fetches a URL twice,
\* and terminates, whatever the link structure.
C1_WalkTerminates == [](WalkBounded) /\ <>(pc[1] = "done")

\* a finished walk over a two-page link cycle, stopped by the visited set
C1_Witness ==
    /\ mainpc = "idle" /\ pc[1] = "done" /\ ~failed[1]
    /\ Len(fetched[1]) = 2 /\ max_pages > 2
    /\ site[fetched[1][1]].next = fetched[1][2]
    /\ site[fetched[1][2]].next = fetched[1][1]

\* C2: the list crawl_location returns holds each (URL, lowercase title) key once.
C2_NoDuplicateKeys ==
    \A l \in Locs : \A i, j \in 1..Len(rows[l]) :
        i # j => Key(rows[l][i]) # Key(rows[l][j])

(***************************************************************************)
(* The walk of a location over the site as served, recomputed from the     *)
(* start URL: at most k pages.                                             *)
(***************************************************************************)
RECURSIVE WalkRows(_, _, _, _)
WalkRows(u, sn, rws, k) ==
    IF k <= 0 \/ ~LoopCond(u, sn, max_pages) \/ site[u] = NoPage THEN rws
    ELSE WalkRows(site[u].next, sn \cup {u}, Merge(rws, site[u].rows), k - 1)

\* C3: a failed fetch ends only its own walk, which returns the records of the
\* pages before it; every other walk runs to its end over the same pages; a
\* file is written for every location, with the rows of its walk.
C3_FailureIsLocal ==
    /\ \A l \in Locs : pc[l] = "done" =>
          /\ failed[l] => rows[l] = WalkRows(StartUrl(l), {}, <<>>, Len(fetched[l]) - 1)
          /\ ~failed[l] => /\ rows[l] = WalkRows(StartUrl(l), {}, <<>>, Cardinality(URLs))
                           /\ ~LoopCond(url[l], seen[l], max_pages)
    /\ mainpc = "finished" =>
          ics_files = [i \in 1..NumLocs |-> [slug |-> slugs[i], rows |-> rows[i]]]

\* run_once has finished; one walk failed after a page whose records it kept,
\* another walked two pages without a failure
C3_Witness ==
    /\ mainpc = "finished"
    /\ \E l, k \in Locs :
          /\ failed[l] /\ Len(fetched[l]) = 2 /\ Len(rows[l]) = 1
          /\ ~failed[k] /\ Len(fetched[k]) = 2 /\ Len(rows[k]) = 2

\* C4: the files are written one per location in the order of the location
\* list, and none before every walk has finished.
C4_FilesInCanonicalOrder ==
    /\ Len(ics_files) <= NumLocs
    /\ \A i \in 1..Len(ics_files) : ics_files[i].slug = slugs[i]
    /\ ics_files # <<>> => \A l \in Locs : pc[l] = "done"
    /\ mainpc = "finished" => Len(ics_files) = NumLocs

\* every file is written although the last location completed first
C4_Witness ==
    /\ mainpc = "finished"
    /\ Len(ics_files) = NumLocs
    /\ results[1][1] = NumLocs
    /\ \A l \in Locs : rows[l] # <<>>

\* C5: a fetch that starts within cache_ttl of the store of an entry for its
\* URL is answered from the cache, and an entry's timestamp is its store time.
C5_FreshEntryServesLaterFetch ==
    /\ \A l \in Locs :
          (cache_ttl > 0 /\ pc[l] = "net" /\ missStored[l] >= 0)
              => now[l] - missStored[l] > cache_ttl
    /\ \A u \in URLs : page_cache[u] # NoEntry => page_cache[u].t = storedAt[u]

\* C6: with the cache on, two overlapping fetches of one URL never both have
\* a network request out.
C6_AtMostOneRequestPerUrl ==
    cache_ttl > 0 =>
        \A l, k \in Locs : (l # k /\ pc[l] = "net" /\ pc[k] = "net") => url[l] # url[k]

(***************************************************************************)
(* The calendar encoder.  A text is a sequence of characters; a character  *)
(* is named by a string: "a" is any one-octet character other than the     *)
(* ones named here, "ae", "eur" and "emo" are characters of 2, 3 and 4     *)
(* octets of UTF-8, "CR" and "LF" the two line-end characters.  An octet   *)
(* is [c, k]: the k-th octet of the encoding of character c.               *)
(***************************************************************************)
limit == 75

Width(c) == CASE c = "ae" -> 2 [] c = "eur" -> 3 [] c = "emo" -> 4 [] OTHER -> 1

Ascii(n) == [i \in 1..n |-> "a"]
Rep(c, n) == [i \in 1..n |-> c]

\* The operators over a text split it in halves, to keep the evaluation shallow.
RECURSIVE OctetsIn(_, _, _)
OctetsIn(s, lo, hi) ==
    IF lo > hi THEN 0
    ELSE IF lo = hi THEN Width(s[lo])
    ELSE LET mid == (lo + hi) \div 2
         IN  OctetsIn(s, lo, mid) + OctetsIn(s, mid + 1, hi)

\* len(s.encode("utf-8"))
Octets(s) == OctetsIn(s, 1, Len(s))

RECURSIVE Utf8In(_, _, _)
Utf8In(s, lo, hi) ==
    IF lo > hi THEN <<>>
    ELSE IF lo = hi THEN [k \in 1..Width(s[lo]) |-> [c |-> s[lo], k |-> k]]
    ELSE LET mid == (lo + hi) \div 2
         IN  Utf8In(s, lo, mid) \o Utf8In(s, mid + 1, hi)

\* str.encode("utf-8")
Utf8(s) == Utf8In(s, 1, Len(s))

\* the octet at i starts a complete sequence within bs
StartsChar(bs, i) ==
    LET w == Width(bs[i].c)
    IN  /\ bs[i].k = 1
        /\ i + w - 1 <= Len(bs)
        /\ \A k \in 2..w : bs[i + k - 1] = [c |-> bs[i].c, k |-> k]

RECURSIVE DecodeIn(_, _, _)
DecodeIn(bs, lo, hi) ==
    IF lo > hi THEN <<>>
    ELSE IF lo = hi THEN (IF StartsChar(bs, lo) THEN <<bs[lo].c>> ELSE <<>>)
    ELSE LET mid == (lo + hi) \div 2
         IN  DecodeIn(bs, lo, mid) \o DecodeIn(bs, mid + 1, hi)

\* bytes.decode("utf-8", errors="ignore") of a slice of an encoded text: a
\* complete sequence gives its character, the octets of a sequence that the
\* slice cuts are dropped
DecodeIgnore(bs) == DecodeIn(bs, 1, Len(bs))

Min(a, b) == IF a < b THEN a ELSE b

RECURSIVE JoinIn(_, _, _, _)
JoinIn(ls, sep, lo, hi) ==
    IF lo > hi THEN <<>>
    ELSE IF lo = hi THEN ls[lo]
    ELSE LET mid == (lo + hi) \div 2
         IN  JoinIn(ls, sep, lo, mid) \o sep \o JoinIn(ls, sep, mid + 1, hi)

\* sep.join(ls)
Join(ls, sep) == JoinIn(ls, sep, 1, Len(ls))

CRLF == <<"CR", "LF">>

\* the while loop of fold_ical_line
RECURSIVE FoldChunks(_, _, _)
FoldChunks(raw, start, chunks) ==
    IF start >= Len(raw) THEN chunks
    ELSE LET end == Min(start + limit, Len(raw))
             chunk == DecodeIgnore(SubSeq(raw, start + 1, end))
         IN  FoldChunks(raw, end, Append(chunks, IF start = 0 THEN chunk ELSE <<" ">> \o chunk))

fold_ical_line(line) == Join(FoldChunks(Utf8(line), 0, <<>>), CRLF)

\* str.replace of backslash, newline, comma and semicolon, in that order
EscapeChar(c) ==
    CASE c = "\\" -> <<"\\", "\\">>
      [] c = "LF" -> <<"\\", "n">>
      [] c = "," -> <<"\\", ",">>
      [] c = ";" -> <<"\\", ";">>
      [] OTHER -> <<c>>

RECURSIVE EscapeIn(_, _, _)
EscapeIn(text, lo, hi) ==
    IF lo > hi THEN <<>>
    ELSE IF lo = hi THEN EscapeChar(text[lo])
    ELSE LET mid == (lo + hi) \div 2
         IN  EscapeIn(text, lo, mid) \o EscapeIn(text, mid + 1, hi)

ics_escape(text) == EscapeIn(text, 1, Len(text))

\* lines 303-313: the calendar header and the VTIMEZONE block, none folded
HeaderLines(cn) ==
    << Ascii(15), Ascii(43), Ascii(11), Ascii(18), Ascii(14),
       Ascii(13) \o ics_escape(cn), Ascii(31),
       Ascii(15), Ascii(22), Ascii(32), Ascii(14), Ascii(18), Ascii(18), Ascii(11),
       Ascii(23), Ascii(38), Ascii(12), Ascii(14), Ascii(18), Ascii(18), Ascii(10),
       Ascii(23), Ascii(39), Ascii(12), Ascii(13) >>

SummaryLine(title) == Ascii(8) \o ics_escape(title)

\* lines 332-345 for a record with a date, no URL and counts of 0: BEGIN, UID,
\* DTSTAMP, DTSTART, DTEND, SUMMARY, DESCRIPTION, STATUS, TRANSP, END
EventLines(title) ==
    << Ascii(12), Ascii(52), Ascii(24), Ascii(46), Ascii(44), SummaryLine(title),
       Ascii(37), Ascii(16), Ascii(13), Ascii(10) >>

\* rows_to_ics for one record: the text written to the file
IcsContent(cn, title) ==
    LET evtl == EventLines(title)
        lines == HeaderLines(cn) \o [i \in 1..Len(evtl) |-> fold_ical_line(evtl[i])]
                     \o <<Ascii(13)>>
    IN  Join(lines, CRLF) \o CRLF

(***************************************************************************)
(* The inputs of the encoder: a calendar name of one-octet characters, and *)
(* a title made of a run of one-octet characters that ends near the fold   *)
(* boundary of the SUMMARY line, a run of one other character, and a tail. *)
(***************************************************************************)
MaxLead == 3      \* the first run ends 0..MaxLead octets before the boundary
MaxRun == 2       \* the run of the other character has 0..MaxRun characters
MaxTail == 2      \* the tail has 0..MaxTail or limit-1..limit-1+MaxTail characters

CalNames == {Ascii(14), Ascii(limit - 13), Ascii(limit - 12)}
RunChars == {",", "ae", "eur", "emo"}
Titles ==
    { Ascii(a) \o Rep(ch, m) \o Ascii(t) :
        a \in (limit - 8 - MaxLead)..(limit - 8),
        ch \in RunChars,
        m \in 0..MaxRun,
        t \in (0..MaxTail) \cup ((limit - 1)..(limit - 1 + MaxTail)) }

CrawlIdle ==
    /\ CrawlStart([l \in Locs |-> StartUrl(l)])
    /\ max_pages = 0 /\ workers = 1 /\ cache_ttl = 0
    /\ pc = [l \in Locs |-> "done"]
    /\ mainpc = "idle"

InitFold ==
    /\ CrawlIdle
    /\ EncIdle
    /\ calname \in CalNames
    /\ navn \in Titles
    /\ folded = <<>>
    /\ content = <<>>
    /\ fpc = "start"

\* fold_ical_line applied to the record's SUMMARY line
FoldSummary ==
    /\ fpc = "start"
    /\ folded' = fold_ical_line(SummaryLine(navn))
    /\ fpc' = "folded"
    /\ UNCHANGED <<calname, navn, content>>
    /\ UNCHANGED <<crawlVars, encVars>>

\* rows_to_ics writes the file
RowsToIcs ==
    /\ fpc \in {"start", "folded"}
    /\ content' = IcsContent(calname, navn)
    /\ fpc' = "written"
    /\ UNCHANGED <<calname, navn, folded>>
    /\ UNCHANGED <<crawlVars, encVars>>

NextFold == FoldSummary \/ RowsToIcs

SpecFold == InitFold /\ [][NextFold]_vars

\* where the line terminators of a text start
Terminators(txt) == {i \in 1..(Len(txt) - 1) : txt[i] = "CR" /\ txt[i + 1] = "LF"}

\* the line that the terminator at p ends
LineBefore(txt, p) ==
    LET before == {q \in Terminators(txt) : q < p}
        from == IF before = {} THEN 1
                ELSE (CHOOSE q \in before : \A r \in before : r <= q) + 2
    IN  SubSeq(txt, from, p - 1)

\* the physical lines of a text: what stands between two terminators
PhysicalLines(txt) == {LineBefore(txt, p) : p \in Terminators(txt)}

\* C8: no physical line of the written document is longer than 75 octets.
C8_LinesWithinLimit ==
    fpc = "written" => \A ln \in PhysicalLines(content) : Octets(ln) <= limit

\* the character at i belongs to a CRLF that a single space follows
InFoldMark(txt, i) ==
    \E p \in {i - 2, i - 1, i} :
        /\ p >= 1 /\ p + 2 <= Len(txt)
        /\ txt[p] = "CR" /\ txt[p + 1] = "LF" /\ txt[p + 2] = " "

RECURSIVE UnfoldIn(_, _, _)
UnfoldIn(txt, lo, hi) ==
    IF lo > hi THEN <<>>
    ELSE IF lo = hi THEN (IF InFoldMark(txt, lo) THEN <<>> ELSE <<txt[lo]>>)
    ELSE LET mid == (lo + hi) \div 2
         IN  UnfoldIn(txt, lo, mid) \o UnfoldIn(txt, mid + 1, hi)

\* removing each CRLF that a single space follows
Unfold(txt) == UnfoldIn(txt, 1, Len(txt))

\* C9: unfolding the folded line gives the line back.
C9_FoldIsLossless ==
    fpc = "folded" => Unfold(folded) = SummaryLine(navn)

(***************************************************************************)
(* One listing row, extracted and encoded.  The time cell is a text over   *)
(* the digits 1 and 2, the colon and the space.                            *)
(***************************************************************************)
MaxCell == 5      \* the time cell has at most MaxCell characters

IsDigit(c) == c \in {"1", "2"}
DigitVal(c) == IF c = "1" THEN 1 ELSE 2

RECURSIVE ToInt(_)
ToInt(ds) == IF ds = <<>> THEN 0 ELSE 10 * ToInt(SubSeq(ds, 1, Len(ds) - 1)) + DigitVal(ds[Len(ds)])

\* (\d{1,2}):(\d{2}) with n hour digits matches at i
MatchesAt(s, i, n) ==
    /\ i + n + 2 <= Len(s)
    /\ \A k \in i..(i + n - 1) : IsDigit(s[k])
    /\ s[i + n] = ":"
    /\ IsDigit(s[i + n + 1]) /\ IsDigit(s[i + n + 2])

NoMatch == [found |-> FALSE, g0 |-> <<>>, g1 |-> <<>>, g2 |-> <<>>]

\* re.search(r"(\d{1,2}):(\d{2})", s): the leftmost match, two hour digits
\* tried before one
TimeSearch(s) ==
    LET starts == {i \in 1..Len(s) : MatchesAt(s, i, 2) \/ MatchesAt(s, i, 1)}
    IN  IF starts = {} THEN NoMatch
        ELSE LET i == CHOOSE j \in starts : \A k \in starts : j <= k
                 n == IF MatchesAt(s, i, 2) THEN 2 ELSE 1
             IN  [found |-> TRUE,
                  g0 |-> SubSeq(s, i, i + n + 2),
                  g1 |-> SubSeq(s, i, i + n - 1),
                  g2 |-> SubSeq(s, i + n + 1, i + n + 2)]

RECURSIVE Strip(_)
Strip(s) ==
    IF s = <<>> THEN s
    ELSE IF Head(s) = " " THEN Strip(Tail(s))
    ELSE IF s[Len(s)] = " " THEN Strip(SubSeq(s, 1, Len(s) - 1))
    ELSE s

\* lines 83-86: returns m.group(1)
norm_time(s) ==
    IF s = <<>> THEN <<>>
    ELSE LET m == TimeSearch(s) IN IF m.found THEN m.g1 ELSE Strip(s)

\* norm_date: the ISO date of a cell that parses, else ""
norm_date(ok) == IF ok THEN "2025-06-10" ELSE ""

\* parse_dt_local: "None" without a date, "ValueError" when datetime() rejects
\* the hour or minute, else the hour and minute
parse_dt_local(date_str, time_str) ==
    IF date_str = "" THEN [kind |-> "None", hm |-> <<-1, -1>>]
    ELSE LET m == TimeSearch(time_str)
             hh == IF m.found THEN ToInt(m.g1) ELSE 18
             mm == IF m.found THEN ToInt(m.g2) ELSE 0
         IN  IF hh > 23 \/ mm > 59 THEN [kind |-> "ValueError", hm |-> <<hh, mm>>]
             ELSE [kind |-> "datetime", hm |-> <<hh, mm>>]

\* start + timedelta(hours=2): day offset, hour, minute
PlusTwoHours(hm) ==
    IF hm[1] + 2 >= 24 THEN <<1, hm[1] + 2 - 24, hm[2]>> ELSE <<0, hm[1] + 2, hm[2]>>

RECURSIVE Texts(_)
Texts(n) ==
    IF n = 0 THEN {<<>>}
    ELSE LET shorter == Texts(n - 1)
         IN  shorter \cup {Append(t, c) : t \in shorter, c \in {"1", "2", ":", " "}}

\* cell texts come stripped from get_text(" ", strip=True) and c.strip()
TimeCells == {t \in Texts(MaxCell) : Strip(t) = t}
ClassNames == {"rowExternal", "danger", "even", "odd"}

InitEnc ==
    /\ CrawlIdle
    /\ FoldIdle
    /\ layout \in {"table", "pipe"}
    /\ timeCell \in TimeCells
    /\ dateOk \in BOOLEAN
    /\ classTokens \in IF layout = "table" THEN SUBSET ClassNames ELSE {{}}
    /\ rec = NoRec
    /\ evt = NoEvt
    /\ epc = "row"

\* parse_table, one data row (lines 127-155): the class tokens are not read
ExtractTable ==
    /\ epc = "row"
    /\ layout = "table"
    /\ rec' = [Navn |-> "A", Dato |-> norm_date(dateOk),
               Klokkeslaet |-> norm_time(timeCell), URL |-> 1]
    /\ epc' = "record"
    /\ UNCHANGED <<layout, timeCell, dateOk, classTokens, evt>>
    /\ UNCHANGED <<crawlVars, foldVars>>

\* parse_pipe_lines, one text line (lines 183-194)
ExtractPipe ==
    /\ epc = "row"
    /\ layout = "pipe"
    /\ rec' = [Navn |-> "A", Dato |-> norm_date(dateOk),
               Klokkeslaet |-> norm_time(timeCell), URL |-> 0]
    /\ epc' = "record"
    /\ UNCHANGED <<layout, timeCell, dateOk, classTokens, evt>>
    /\ UNCHANGED <<crawlVars, foldVars>>

\* rows_to_ics, a record without a start: continue (lines 316-318)
SkipRecord ==
    /\ epc = "record"
    /\ parse_dt_local(rec.Dato, rec.Klokkeslaet).kind = "None"
    /\ epc' = "skipped"
    /\ UNCHANGED <<layout, timeCell, dateOk, classTokens, rec, evt>>
    /\ UNCHANGED <<crawlVars, foldVars>>

\* rows_to_ics, the VEVENT of a record (lines 319-345)
EncodeEvent ==
    /\ epc = "record"
    /\ LET dt == parse_dt_local(rec.Dato, rec.Klokkeslaet)
       IN  /\ dt.kind # "None"
           /\ IF dt.kind = "ValueError"
              THEN /\ epc' = "raised"
                   /\ evt' = evt
              ELSE /\ epc' = "encoded"
                   /\ evt' = [start |-> dt.hm, end |-> PlusTwoHours(dt.hm),
                              status |-> "CONFIRMED"]
    /\ UNCHANGED <<layout, timeCell, dateOk, classTokens, rec>>
    /\ UNCHANGED <<crawlVars, foldVars>>

NextEnc == ExtractTable \/ ExtractPipe \/ SkipRecord \/ EncodeEvent

SpecEnc == InitEnc /\ [][NextEnc]_vars

\* C7: the extracted time is the first H:MM or HH:MM token of the time cell,
\* the event starts at that time, at 18:00 only without a token, and ends
\* two hours later.
C7_StartIsCellTime ==
    LET m == TimeSearch(timeCell)
    IN  epc = "encoded" =>
            /\ m.found => rec.Klokkeslaet = m.g0
            /\ evt.start = IF m.found THEN <<ToInt(m.g1), ToInt(m.g2)>> ELSE <<18, 0>>
            /\ evt.end = PlusTwoHours(evt.start)

LowerToken(t) == IF t = "rowExternal" THEN "rowexternal" ELSE t

\* the row is marked cancelled: rowExternal, danger and a zebra marker
MarkedCancelled ==
    LET toks == {LowerToken(t) : t \in classTokens}
    IN  /\ layout = "table"
        /\ "rowexternal" \in toks
        /\ "danger" \in toks
        /\ ("even" \in toks \/ "odd" \in toks)

\* C10: the event is STATUS:CANCELLED exactly when the table row is marked
\* cancelled, else STATUS:CONFIRMED; a pipe-text record is never cancelled.
C10_StatusFollowsMarkers ==
    epc = "encoded" =>
        evt.status = IF MarkedCancelled THEN "CANCELLED" ELSE "CONFIRMED"

====
